---- MODULE Spec2Model ----
(***************************************************************************)
(* A model of main.py: the Document Intelligence client factory, the two   *)
(* analysis functions (get_ocr_results, parse_pdf_to_markdown), the output *)
(* writer (save_markdown_output) and the demonstration run                  *)
(* (test_ocr_functions), together with the things they act on: the process *)
(* environment, the file system and the remote analysis service with its   *)
(* long-running operations.                                                 *)
(***************************************************************************)
EXTENDS Naturals, Sequences, FiniteSets, TLC

(* ------------------------------ bounds --------------------------------- *)

\* Invocations started, in total, before the worker threads start no more.
MaxCalls == 2

\* Length, in code points, of the texts handed to save_markdown_output by
\* the worker threads.
MaxLen == 2

(* ------------------------------ threads -------------------------------- *)

MainThread == "main"

Workers == {"w1", "w2"}

Threads == {MainThread} \cup Workers

(* ------------------------- process environment ------------------------- *)

\* os.getenv returns None for a variable that is not set.
None == "<None>"

EnvValues == {None, "", "set"}

\* Python truthiness of an Optional[str]: None and "" are falsy.
Falsy(v) == v = None \/ v = ""

(* ------------------------------- text ---------------------------------- *)

\* A str is a sequence of code points: "H", the euro sign (three bytes in
\* UTF-8) and a lone surrogate (a str may hold one; UTF-8 cannot encode it).
CodePoints == {72, 8364, 55296}

IsSurrogate(c) == c >= 55296 /\ c <= 57343

RECURSIVE TextsOfLen(_)
TextsOfLen(n) ==
    IF n = 0 THEN {<<>>}
    ELSE {Append(t, c) : t \in TextsOfLen(n - 1), c \in CodePoints}

Texts == UNION {TextsOfLen(n) : n \in 0..MaxLen}

\* The codec of open(..., "w", encoding="utf-8"), one code point.
EncodeCodePoint(c) ==
    IF c < 128 THEN <<c>>
    ELSE IF c < 2048 THEN <<192 + (c \div 64), 128 + (c % 64)>>
    ELSE IF c < 65536
         THEN <<224 + (c \div 4096), 128 + ((c \div 64) % 64), 128 + (c % 64)>>
    ELSE <<240 + (c \div 262144), 128 + ((c \div 4096) % 64),
           128 + ((c \div 64) % 64), 128 + (c % 64)>>

\* A strict codec raises UnicodeEncodeError on a surrogate.
Encodable(text) == \A i \in 1..Len(text) : ~IsSurrogate(text[i])

RECURSIVE Encode(_)
Encode(text) ==
    IF text = <<>> THEN <<>>
    ELSE EncodeCodePoint(Head(text)) \o Encode(Tail(text))

\* Reading the file back as UTF-8 text.
RECURSIVE Decode(_)
Decode(bytes) ==
    IF bytes = <<>> THEN <<>>
    ELSE LET b == bytes[1]
             n == IF b < 128 THEN 1 ELSE IF b < 224 THEN 2
                  ELSE IF b < 240 THEN 3 ELSE 4
             c == IF n = 1 THEN b
                  ELSE IF n = 2 THEN (b - 192) * 64 + (bytes[2] - 128)
                  ELSE IF n = 3
                       THEN (b - 224) * 4096 + (bytes[2] - 128) * 64
                            + (bytes[3] - 128)
                  ELSE (b - 240) * 262144 + (bytes[2] - 128) * 4096
                       + (bytes[3] - 128) * 64 + (bytes[4] - 128)
         IN  <<c>> \o Decode(SubSeq(bytes, n + 1, Len(bytes)))

(* ---------------------------- file system ------------------------------ *)

\* A path is its '.'-separated components.
test_file == <<"TAMKEEN", "jpg">>

\* A document whose name has no extension.
other_file == <<"scan">>

\* f"{test_file.split('.')[0]}_ocr_output.txt"
OcrOutputFile(path) == <<path[1] \o "_ocr_output", "txt">>

\* f"{test_file.split('.')[0]}_markdown.md"
MarkdownOutputFile(path) == <<path[1] \o "_markdown", "md">>

scratch_file == <<"out", "txt">>

InputPaths == {test_file, other_file}

OutputPaths == {OcrOutputFile(test_file), MarkdownOutputFile(test_file)}

\* Where the worker threads write.
SavePaths == {MarkdownOutputFile(test_file), scratch_file}

Paths == InputPaths \cup OutputPaths \cup SavePaths

NoFile == [exists |-> FALSE, data |-> <<>>]

File(bytes) == [exists |-> TRUE, data |-> bytes]

\* An open that does not look.
ReadableAlways(files, path) == TRUE

\* open(path, "rb") succeeds on a file that is there.
Readable(files, path) == files[path].exists

\* mimetypes.guess_type(path)[0]: by the last extension, None when unknown.
GuessType(path) ==
    LET ext == path[Len(path)]
    IN  IF Len(path) < 2 THEN None
        ELSE IF ext = "jpg" THEN "image/jpeg"
        ELSE IF ext = "pdf" THEN "application/pdf"
        ELSE IF ext = "txt" THEN "text/plain"
        ELSE IF ext = "md" THEN "text/markdown"
        ELSE None

(* --------------------------- remote service ---------------------------- *)

\* What the service answers: "H", a text with a multi-byte character and a
\* text holding a lone surrogate (json.loads yields one for "\ud800").
ServiceTexts == {<<72>>, <<8364, 72>>, <<55296>>}

\* The errors the SDK raises, at submission or while waiting.
RemoteErrors == {"HttpResponseError", "ServiceRequestError"}

(* ------------------------------- state --------------------------------- *)

VARIABLES
    env,       \* the process environment: endpoint and key
    fs,        \* the file system: path -> file
    stack,     \* thread -> its call stack, a sequence of invocation ids
    invs,      \* invocation id -> its frame and, once it has ended, its outcome
    calls,     \* the number of invocations started
    ops,       \* operation id -> a call of begin_analyze_document
    submitted, \* the number of calls of begin_analyze_document
    handles,   \* the number of DocumentIntelligenceClient objects constructed
    writes,    \* every open(..., "w") of the run of test_ocr_functions so far
    saved      \* path -> the last call of save_markdown_output on it

vars == <<env, fs, stack, invs, calls, ops, submitted, handles, writes, saved>>

\* The frame of a new invocation of fn.
Frame(fn, thread, caller, path) ==
    [fn |-> fn, thread |-> thread, caller |-> caller, pc |-> "start",
     path |-> path,
     client |-> 0, opened |-> FALSE, body |-> <<>>, poller |-> 0,
     ocr_content |-> <<>>, markdown_content |-> <<>>, printed |-> <<>>,
     outcome |-> "running", value |-> <<>>, error |-> ""]

Idle(t) == stack[t] = <<>>

Top(t) == stack[t][Len(stack[t])]

At(t, fn, pc) == ~Idle(t) /\ invs[Top(t)].fn = fn /\ invs[Top(t)].pc = pc

Returned(frame, value) ==
    [frame EXCEPT !.pc = "done", !.outcome = "returned", !.value = value]

Raised(frame, error) ==
    [frame EXCEPT !.pc = "done", !.outcome = "raised", !.error = error]

\* A run that saves the Markdown even though parse_pdf_to_markdown raised.
ResumeSavesAfterError(frame, callee) ==
    IF frame.pc = "in_ocr"
    THEN IF callee.outcome = "returned"
         THEN [frame EXCEPT !.pc = "write_ocr", !.ocr_content = callee.value]
         ELSE [frame EXCEPT !.pc = "call_markdown",
                 !.printed = Append(@, <<"get_ocr_results", callee.error>>)]
    ELSE IF callee.outcome = "returned"
         THEN [frame EXCEPT !.pc = "call_save",
                 !.markdown_content = callee.value]
         ELSE [frame EXCEPT !.pc = "call_save",
                 !.printed = Append(@, <<"parse_pdf_to_markdown", callee.error>>)]

\* A run that writes the OCR file even though get_ocr_results raised.
ResumeWritesAfterError(frame, callee) ==
    IF frame.pc = "in_ocr"
    THEN IF callee.outcome = "returned"
         THEN [frame EXCEPT !.pc = "write_ocr", !.ocr_content = callee.value]
         ELSE [frame EXCEPT !.pc = "write_ocr",
                 !.printed = Append(@, <<"get_ocr_results", callee.error>>)]
    ELSE IF callee.outcome = "returned"
         THEN [frame EXCEPT !.pc = "call_save",
                 !.markdown_content = callee.value]
         ELSE [frame EXCEPT !.pc = "end",
                 !.printed = Append(@, <<"parse_pdf_to_markdown", callee.error>>)]

\* Where test_ocr_functions goes on when a call it made comes back: the value
\* is bound (lines 111, 132), an exception is caught and printed by the
\* except clause of the try block the call is in (lines 123-124, 142-143).
Resume(frame, callee) ==
    IF frame.pc = "in_ocr"
    THEN IF callee.outcome = "returned"
         THEN [frame EXCEPT !.pc = "write_ocr", !.ocr_content = callee.value]
         ELSE [frame EXCEPT !.pc = "call_markdown",
                 !.printed = Append(@, <<"get_ocr_results", callee.error>>)]
    ELSE IF callee.outcome = "returned"
         THEN [frame EXCEPT !.pc = "call_save",
                 !.markdown_content = callee.value]
         ELSE [frame EXCEPT !.pc = "end",
                 !.printed = Append(@, <<"parse_pdf_to_markdown", callee.error>>)]

\* Thread t calls fn from its current frame, which waits at pc.
Call(t, pc, fn, path) ==
    /\ invs' = [invs EXCEPT ![Top(t)].pc = pc]
                 @@ ((calls + 1) :> Frame(fn, t, Top(t), path))
    /\ stack' = [stack EXCEPT ![t] = Append(@, calls + 1)]
    /\ calls' = calls + 1

\* What is still known of the invocations of the other threads: a worker
\* thread that starts a call no longer holds the result of its last one, nor
\* the poller that gave it.
Kept(t) == {i \in DOMAIN invs : invs[i].thread # t}

\* Worker thread t starts fn at the bottom of its stack.
Start(t, fn, path) ==
    /\ t \in Workers
    /\ Idle(t)
    /\ calls < MaxCalls
    /\ invs' = [i \in Kept(t) |-> invs[i]] @@ ((calls + 1) :> Frame(fn, t, 0, path))
    /\ ops' = [k \in {j \in DOMAIN ops : ops[j].inv \in Kept(t)} |-> ops[k]]
    /\ stack' = [stack EXCEPT ![t] = <<calls + 1>>]
    /\ calls' = calls + 1
    /\ UNCHANGED <<env, fs, submitted, handles, writes, saved>>

\* The current invocation of thread t ends as `final` (Returned or Raised):
\* its frame is popped and its caller, when it has one, goes on.
Finish(t, final) ==
    LET i == Top(t)
        c == invs[i].caller
    IN  /\ invs' = IF c = 0 THEN [invs EXCEPT ![i] = final]
                   ELSE [invs EXCEPT ![i] = final, ![c] = Resume(invs[c], final)]
        /\ stack' = [stack EXCEPT ![t] = SubSeq(@, 1, Len(@) - 1)]
        /\ UNCHANGED calls

\* The current invocation of thread t moves on.
Step(t, frame) ==
    /\ invs' = [invs EXCEPT ![Top(t)] = frame]
    /\ UNCHANGED <<stack, calls>>

Init ==
    /\ env \in [endpoint : EnvValues, key : EnvValues]
    /\ \E document \in {NoFile, File(<<37, 80>>)}, old \in {NoFile, File(<<72>>)} :
           fs = [p \in Paths |-> IF p = test_file THEN document
                                 ELSE IF p = other_file THEN File(<<37, 80, 68>>)
                                 ELSE old]
    /\ stack = [t \in Threads |-> <<>>]
    /\ invs = <<>>
    /\ calls = 0
    /\ ops = <<>>
    /\ submitted = 0
    /\ handles = 0
    /\ writes = <<>>
    /\ saved = [p \in Paths |-> [called |-> FALSE, found |-> "nothing",
                                content |-> <<>>, error |-> ""]]

(* --------------------- get_document_intelligence_client ---------------- *)

\* The factory with a check of the endpoint alone.
ClientWithoutKeyCheck(environ, constructed) ==
    IF Falsy(environ.endpoint) THEN 0 ELSE constructed + 1

\* The factory handing out one client object for the whole process.
SharedClient(environ, constructed) ==
    IF Falsy(environ.endpoint) \/ Falsy(environ.key) THEN 0 ELSE 1

\* Lines 19-28: the handle returned, 0 when ValueError is raised instead.
\* Every DocumentIntelligenceClient(...) is a new object.
get_document_intelligence_client(environ, constructed) ==
    IF Falsy(environ.endpoint) \/ Falsy(environ.key) THEN 0
    ELSE constructed + 1

\* A thread calls the factory on its own.
ClientStart(t) == Start(t, "get_document_intelligence_client", <<>>)

\* Lines 19-28, called on their own.
ClientFactory(t) ==
    /\ At(t, "get_document_intelligence_client", "start")
    /\ LET c == get_document_intelligence_client(env, handles)
           frame == invs[Top(t)]
       IN  IF c = 0
           THEN /\ Finish(t, Raised(frame, "ValueError"))
                /\ UNCHANGED handles
           ELSE /\ Finish(t, Returned([frame EXCEPT !.client = c], <<>>))
                /\ handles' = c
    /\ UNCHANGED <<env, fs, ops, submitted, writes, saved>>

(* ------------------------------ the SDK -------------------------------- *)

\* client.begin_analyze_document(...): the call as the service receives it.
\* It is pending when the SDK returns a poller; a call the SDK raises on is
\* kept as rejected.
Operation(inv, client, request, error) ==
    [inv |-> inv, client |-> client, model_id |-> request.model_id,
     body |-> request.body, content_type |-> request.content_type,
     output_content_format |-> request.output_content_format,
     status |-> IF error = "" THEN "pending" ELSE "rejected",
     content |-> <<>>, error |-> error]

\* A result() that does not wait.
PollerNeverWaits(op) == TRUE

\* poller.result() returns or raises only once the operation has ended.
PollerDone(op) == op.status \in {"succeeded", "failed"}

(* --------------------------- get_ocr_results ---------------------------- *)

\* A thread calls get_ocr_results(file_path).
OcrStart(t, path) == Start(t, "get_ocr_results", path)

\* Line 40: a new client instance for this request.
OcrClient(t) ==
    /\ At(t, "get_ocr_results", "start")
    /\ LET c == get_document_intelligence_client(env, handles)
           frame == invs[Top(t)]
       IN  IF c = 0
           THEN /\ Finish(t, Raised(frame, "ValueError"))
                /\ UNCHANGED handles
           ELSE /\ Step(t, [frame EXCEPT !.pc = "open", !.client = c])
                /\ handles' = c
    /\ UNCHANGED <<env, fs, ops, submitted, writes, saved>>

\* Line 42: open(file_path, "rb").
OcrOpen(t) ==
    /\ At(t, "get_ocr_results", "open")
    /\ LET frame == invs[Top(t)]
       IN  IF ~Readable(fs, frame.path)
           THEN Finish(t, Raised(frame, "FileNotFoundError"))
           ELSE Step(t, [frame EXCEPT !.pc = "submit", !.opened = TRUE])
    /\ UNCHANGED <<env, fs, ops, submitted, handles, writes, saved>>

\* The OCR request asking for Markdown as well.
OcrRequestMarkdown(frame, files) ==
    [model_id |-> "prebuilt-layout", body |-> files[frame.path].data,
     content_type |-> None, output_content_format |-> "markdown"]

\* Line 44: the arguments of begin_analyze_document; body is the open file.
OcrRequest(frame, files) ==
    [model_id |-> "prebuilt-layout", body |-> files[frame.path].data,
     content_type |-> None, output_content_format |-> None]

\* Lines 43-44: the document is submitted; the with block then closes the
\* file, whether the SDK returned a poller or raised.
OcrSubmit(t, error) ==
    /\ At(t, "get_ocr_results", "submit")
    /\ LET frame == invs[Top(t)]
       IN  /\ ops' = ops @@ ((submitted + 1) :>
                        Operation(Top(t), frame.client, OcrRequest(frame, fs), error))
           /\ submitted' = submitted + 1
           /\ IF error = ""
              THEN Step(t, [frame EXCEPT !.pc = "result", !.poller = submitted + 1])
              ELSE Finish(t, Raised(frame, error))
    /\ UNCHANGED <<env, fs, handles, writes, saved>>

\* A wait that gives up on an operation that is still pending.
OcrResultTimeout(t) ==
    /\ At(t, "get_ocr_results", "result")
    /\ LET frame == invs[Top(t)]
           op == ops[frame.poller]
       IN  IF op.status = "pending" THEN Finish(t, Raised(frame, "TimeoutError"))
           ELSE IF op.status = "failed" THEN Finish(t, Raised(frame, op.error))
           ELSE Finish(t, Returned(frame, op.content))
    /\ UNCHANGED <<env, fs, ops, submitted, handles, writes, saved>>

\* Lines 47-50: poller.result().content, returned as it is.
OcrResult(t) ==
    /\ At(t, "get_ocr_results", "result")
    /\ LET frame == invs[Top(t)]
           op == ops[frame.poller]
       IN  /\ PollerDone(op)
           /\ IF op.status = "failed"
              THEN Finish(t, Raised(frame, op.error))
              ELSE Finish(t, Returned(frame, op.content))
    /\ UNCHANGED <<env, fs, ops, submitted, handles, writes, saved>>

(* ------------------------ parse_pdf_to_markdown ------------------------- *)

\* A thread calls parse_pdf_to_markdown(pdf_path).
MarkdownStart(t, path) == Start(t, "parse_pdf_to_markdown", path)

\* Lines 57-67: the credentials are read and the client is initialized.
MarkdownClient(t) ==
    /\ At(t, "parse_pdf_to_markdown", "start")
    /\ LET frame == invs[Top(t)]
       IN  IF Falsy(env.endpoint) \/ Falsy(env.key)
           THEN /\ Finish(t, Raised(frame, "ValueError"))
                /\ UNCHANGED handles
           ELSE /\ Step(t, [frame EXCEPT !.pc = "read", !.client = handles + 1])
                /\ handles' = handles + 1
    /\ UNCHANGED <<env, fs, ops, submitted, writes, saved>>

\* Lines 70-71: the file is read whole.
MarkdownRead(t) ==
    /\ At(t, "parse_pdf_to_markdown", "read")
    /\ LET frame == invs[Top(t)]
       IN  IF ~Readable(fs, frame.path)
           THEN Finish(t, Raised(frame, "FileNotFoundError"))
           ELSE Step(t, [frame EXCEPT !.pc = "submit", !.opened = TRUE,
                                      !.body = fs[frame.path].data])
    /\ UNCHANGED <<env, fs, ops, submitted, handles, writes, saved>>

\* Lines 74-82: the arguments of begin_analyze_document.
MarkdownRequest(frame) ==
    [model_id |-> "prebuilt-layout", body |-> frame.body,
     content_type |-> IF GuessType(frame.path) = None THEN "application/pdf"
                      ELSE GuessType(frame.path),
     output_content_format |-> "markdown"]

\* A submission that is tried again when the SDK raises.
MarkdownSubmitRetry(t, error) ==
    /\ At(t, "parse_pdf_to_markdown", "submit")
    /\ LET frame == invs[Top(t)]
       IN  /\ ops' = ops @@ ((submitted + 1) :>
                        Operation(Top(t), frame.client, MarkdownRequest(frame), error))
           /\ submitted' = submitted + 1
           /\ Step(t, IF error = ""
                      THEN [frame EXCEPT !.pc = "result", !.poller = submitted + 1]
                      ELSE frame)
    /\ UNCHANGED <<env, fs, handles, writes, saved>>

\* Lines 74-82: the document is submitted.
MarkdownSubmit(t, error) ==
    /\ At(t, "parse_pdf_to_markdown", "submit")
    /\ LET frame == invs[Top(t)]
       IN  /\ ops' = ops @@ ((submitted + 1) :>
                        Operation(Top(t), frame.client, MarkdownRequest(frame), error))
           /\ submitted' = submitted + 1
           /\ IF error = ""
              THEN Step(t, [frame EXCEPT !.pc = "result", !.poller = submitted + 1])
              ELSE Finish(t, Raised(frame, error))
    /\ UNCHANGED <<env, fs, handles, writes, saved>>

\* Lines 84-85: poller.result(), then its content.
MarkdownResult(t) ==
    /\ At(t, "parse_pdf_to_markdown", "result")
    /\ LET frame == invs[Top(t)]
           op == ops[frame.poller]
       IN  /\ PollerDone(op)
           /\ IF op.status = "failed"
              THEN Finish(t, Raised(frame, op.error))
              ELSE Finish(t, Returned(frame, op.content))
    /\ UNCHANGED <<env, fs, ops, submitted, handles, writes, saved>>

(* ------------------------------ writing -------------------------------- *)

\* The file opened with "a" instead of "w".
WriteTextAppend(files, path, content, writable) ==
    IF ~writable THEN [fs |-> files, error |-> "PermissionError"]
    ELSE IF ~Encodable(content)
    THEN [fs |-> [files EXCEPT ![path] = File(files[path].data)],
          error |-> "UnicodeEncodeError"]
    ELSE [fs |-> [files EXCEPT ![path] = File(files[path].data \o Encode(content))],
          error |-> ""]

\* with open(path, "w", encoding="utf-8") as f: f.write(content)
\* open fails on an unwritable destination and leaves everything as it was;
\* once it has succeeded the file exists and is empty, and write puts the
\* encoded text in it, or raises on a text the codec cannot encode.
WriteText(files, path, content, writable) ==
    IF ~writable THEN [fs |-> files, error |-> "PermissionError"]
    ELSE IF ~Encodable(content)
    THEN [fs |-> [files EXCEPT ![path] = File(<<>>)],
          error |-> "UnicodeEncodeError"]
    ELSE [fs |-> [files EXCEPT ![path] = File(Encode(content))], error |-> ""]

Written(inv, path, content, error) ==
    [inv |-> inv, path |-> path, content |-> content, error |-> error]

(* ------------------------- save_markdown_output ------------------------- *)

\* Lines 91-93: the file system after the call and the exception it raised,
\* "" when it returned.
save_markdown_output(files, content, output_path, writable) ==
    WriteText(files, output_path, content, writable)

\* The last call on a path: what it found there (nothing, what it was to
\* write itself, or something else) and, when it returned, the text it was
\* given.
Saved(before, after, content, error) ==
    [called |-> TRUE,
     found |-> IF ~before.exists \/ before.data = <<>> THEN "nothing"
               ELSE IF before = after THEN "same" ELSE "other",
     content |-> IF error = "" THEN content ELSE <<>>, error |-> error]

\* A thread calls save_markdown_output(content, output_path).
Save(t, content, path, writable) ==
    /\ t \in Workers
    /\ Idle(t)
    /\ LET w == save_markdown_output(fs, content, path, writable)
       IN  /\ fs' = w.fs
           /\ saved' = [saved EXCEPT ![path] =
                          Saved(fs[path], w.fs[path], content, w.error)]
    /\ UNCHANGED <<env, stack, invs, calls, ops, submitted, handles, writes>>

(* -------------------------- test_ocr_functions -------------------------- *)

\* Lines 145-152: main() runs test_ocr_functions, once.
Main(t) ==
    /\ t = MainThread
    /\ Idle(t)
    /\ \A i \in DOMAIN invs : invs[i].fn # "test_ocr_functions"
    /\ invs' = invs @@ ((calls + 1) :> Frame("test_ocr_functions", t, 0, test_file))
    /\ stack' = [stack EXCEPT ![t] = <<calls + 1>>]
    /\ calls' = calls + 1
    /\ UNCHANGED <<env, fs, ops, submitted, handles, writes, saved>>

\* Lines 101-111: without the test file the run ends at once; with it
\* get_ocr_results(test_file) is called inside the first try block.
TestOcr(t) ==
    /\ At(t, "test_ocr_functions", "start")
    /\ LET frame == invs[Top(t)]
       IN  IF ~fs[frame.path].exists
           THEN Finish(t, Returned([frame EXCEPT
                    !.printed = Append(@, <<"test_file", "not found">>)], <<>>))
           ELSE Call(t, "in_ocr", "get_ocr_results", frame.path)
    /\ UNCHANGED <<env, fs, ops, submitted, handles, writes, saved>>

\* Lines 114-121: the OCR text is written; an exception of open or write is
\* caught by the first except clause (lines 123-124).
TestWriteOcr(t, writable) ==
    /\ At(t, "test_ocr_functions", "write_ocr")
    /\ LET frame == invs[Top(t)]
           ocr_output_file == OcrOutputFile(frame.path)
           w == WriteText(fs, ocr_output_file, frame.ocr_content, writable)
       IN  /\ fs' = w.fs
           /\ writes' = Append(writes, Written(Top(t), ocr_output_file,
                                               frame.ocr_content, w.error))
           /\ Step(t, [frame EXCEPT !.pc = "call_markdown",
                         !.printed = IF w.error = "" THEN @
                                     ELSE Append(@, <<"get_ocr_results", w.error>>)])
    /\ UNCHANGED <<env, ops, submitted, handles, saved>>

\* Lines 126-132: the second try block calls parse_pdf_to_markdown(test_file).
TestMarkdown(t) ==
    /\ At(t, "test_ocr_functions", "call_markdown")
    /\ Call(t, "in_markdown", "parse_pdf_to_markdown", invs[Top(t)].path)
    /\ UNCHANGED <<env, fs, ops, submitted, handles, writes, saved>>

\* Lines 135-140: save_markdown_output(markdown_content,
\* markdown_output_file); an exception it raises is caught by the second
\* except clause (lines 142-143).
TestSave(t, writable) ==
    /\ At(t, "test_ocr_functions", "call_save")
    /\ LET frame == invs[Top(t)]
           markdown_output_file == MarkdownOutputFile(frame.path)
           w == save_markdown_output(fs, frame.markdown_content,
                                     markdown_output_file, writable)
       IN  /\ fs' = w.fs
           /\ writes' = Append(writes, Written(Top(t), markdown_output_file,
                                               frame.markdown_content, w.error))
           /\ saved' = [saved EXCEPT ![markdown_output_file] =
                          Saved(fs[markdown_output_file], w.fs[markdown_output_file],
                                frame.markdown_content, w.error)]
           /\ Step(t, [frame EXCEPT !.pc = "end",
                         !.printed = IF w.error = "" THEN @
                                     ELSE Append(@, <<"parse_pdf_to_markdown", w.error>>)])
    /\ UNCHANGED <<env, ops, submitted, handles>>

\* Lines 138-143: the last prints; test_ocr_functions returns.
TestEnd(t) ==
    /\ At(t, "test_ocr_functions", "end")
    /\ Finish(t, Returned(invs[Top(t)], <<>>))
    /\ UNCHANGED <<env, fs, ops, submitted, handles, writes, saved>>

(* --------------------------- the remote service ------------------------- *)

\* A pending operation succeeds; its result holds the content.
ServiceSucceed(k, content) ==
    /\ ops[k].status = "pending"
    /\ ops' = [ops EXCEPT ![k].status = "succeeded", ![k].content = content]
    /\ UNCHANGED <<env, fs, stack, invs, calls, submitted, handles, writes, saved>>

\* A pending operation fails (quota, malformed document, the network).
ServiceFail(k, error) ==
    /\ ops[k].status = "pending"
    /\ ops' = [ops EXCEPT ![k].status = "failed", ![k].error = error]
    /\ UNCHANGED <<env, fs, stack, invs, calls, submitted, handles, writes, saved>>

(* ---------------------------- specification ---------------------------- *)

\* The steps of the three functions, whoever called them, and of the service.
Steps ==
    \/ \E t \in Threads : OcrClient(t)
    \/ \E t \in Threads : OcrOpen(t)
    \/ \E t \in Threads, error \in RemoteErrors \cup {""} : OcrSubmit(t, error)
    \/ \E t \in Threads : OcrResult(t)
    \/ \E t \in Threads : MarkdownClient(t)
    \/ \E t \in Threads : MarkdownRead(t)
    \/ \E t \in Threads, error \in RemoteErrors \cup {""} : MarkdownSubmit(t, error)
    \/ \E t \in Threads : MarkdownResult(t)
    \/ \E k \in DOMAIN ops, content \in ServiceTexts : ServiceSucceed(k, content)
    \/ \E k \in DOMAIN ops, error \in RemoteErrors : ServiceFail(k, error)

\* Worker threads call the factory and the analysis functions.
Calls ==
    \/ \E t \in Workers : ClientStart(t)
    \/ \E t \in Workers : ClientFactory(t)
    \/ \E t \in Workers, path \in InputPaths : OcrStart(t, path)
    \/ \E t \in Workers, path \in InputPaths : MarkdownStart(t, path)

\* Worker threads call the output writer.
Saves ==
    \E t \in Workers, content \in Texts, path \in SavePaths, writable \in BOOLEAN :
        Save(t, content, path, writable)

\* The main thread runs test_ocr_functions.
Run ==
    \/ \E t \in Threads : Main(t)
    \/ \E t \in Threads : TestOcr(t)
    \/ \E t \in Threads, writable \in BOOLEAN : TestWriteOcr(t, writable)
    \/ \E t \in Threads : TestMarkdown(t)
    \/ \E t \in Threads, writable \in BOOLEAN : TestSave(t, writable)
    \/ \E t \in Threads : TestEnd(t)

Next == Steps \/ Calls \/ Saves \/ Run

\* The whole program: the run of the main thread beside the worker threads.
Spec == Init /\ [][Next]_vars

\* save_markdown_output reads neither the environment nor the documents.
InitSave == Init /\ ~Falsy(env.endpoint) /\ ~Falsy(env.key) /\ fs[test_file].exists

\* The factory and the analysis functions read no output file.
InitCalls == Init /\ \A p \in OutputPaths \cup SavePaths : ~fs[p].exists

\* Concurrent calls of the factory and of the analysis functions.
SpecCalls == Init /\ [][Steps \/ Calls]_vars

\* Calls of save_markdown_output.
SpecSave == InitSave /\ [][Saves]_vars

\* The run of test_ocr_functions.
SpecRun == Init /\ [][Run \/ Steps]_vars

\* The service ends operation k, one way or the other.
Resolve(k) ==
    \/ \E content \in ServiceTexts : k \in DOMAIN ops /\ ServiceSucceed(k, content)
    \/ \E error \in RemoteErrors : k \in DOMAIN ops /\ ServiceFail(k, error)

\* The same calls with a service that ends every operation it was given and
\* threads that go on when result() can return.
FairCalls ==
    /\ InitCalls /\ [][Steps \/ Calls]_vars
    /\ \A k \in 1..MaxCalls : WF_vars(Resolve(k))
    /\ \A t \in Workers : WF_vars(OcrResult(t)) /\ WF_vars(MarkdownResult(t))

TypeOK ==
    /\ handles \in Nat /\ calls \in Nat /\ submitted \in Nat
    /\ \A t \in Threads : \A j \in 1..Len(stack[t]) : stack[t][j] \in DOMAIN invs
    /\ \A k \in DOMAIN ops : ops[k].inv \in DOMAIN invs

(* ------------------------------- claims -------------------------------- *)

AnalysisFunctions == {"get_ocr_results", "parse_pdf_to_markdown"}

CredentialsMissing == Falsy(env.endpoint) \/ Falsy(env.key)

\* The operations invocation i submitted.
OpsOf(i) == {k \in DOMAIN ops : ops[k].inv = i}

\* C1: with the endpoint or the key missing, an invocation of the factory or
\* of an analysis function ends by raising the configuration error
\* (ValueError) from its first step, and before that no client is
\* constructed, no file is opened and nothing is submitted to the service.
C1_MissingCredentialsFailBeforeIO ==
    CredentialsMissing =>
        /\ handles = 0
        /\ submitted = 0
        /\ ops = <<>>
        /\ \A i \in DOMAIN invs :
              invs[i].fn \in AnalysisFunctions \cup {"get_document_intelligence_client"} =>
                  /\ invs[i].client = 0
                  /\ ~invs[i].opened
                  /\ invs[i].poller = 0
                  /\ invs[i].pc \in {"start", "done"}
                  /\ invs[i].pc = "done" =>
                        invs[i].outcome = "raised" /\ invs[i].error = "ValueError"

\* The three functions have been called without a key and two of the calls
\* have ended.
C1_Witness ==
    /\ ~Falsy(env.endpoint) /\ Falsy(env.key)
    /\ calls >= 2
    /\ \E i, j \in DOMAIN invs :
          /\ invs[i].fn = "get_ocr_results" /\ invs[i].outcome = "raised"
          /\ invs[j].fn = "parse_pdf_to_markdown" /\ invs[j].outcome = "raised"

IOErrors == {"FileNotFoundError", "PermissionError"}

\* C2 as claimed: an analysis invocation on a path where there is no file
\* ends by raising an IOError, and submits nothing.
C2_MissingFileRaisesIOError ==
    \A i \in DOMAIN invs :
        (invs[i].fn \in AnalysisFunctions /\ ~fs[invs[i].path].exists) =>
            /\ OpsOf(i) = {}
            /\ invs[i].pc = "done" =>
                  invs[i].outcome = "raised" /\ invs[i].error \in IOErrors

\* C2, amended: an analysis invocation on a path where there is no file
\* submits nothing and ends by raising: an IOError (FileNotFoundError) when
\* the endpoint and the key are set, the configuration error (ValueError),
\* raised first, when one of them is missing.
C2_MissingFileFailsBeforeSubmit ==
    \A i \in DOMAIN invs :
        (invs[i].fn \in AnalysisFunctions /\ ~fs[invs[i].path].exists) =>
            /\ OpsOf(i) = {}
            /\ invs[i].poller = 0
            /\ invs[i].pc \in {"start", "open", "read", "done"}
            /\ invs[i].pc = "done" =>
                  /\ invs[i].outcome = "raised"
                  /\ invs[i].error = IF CredentialsMissing THEN "ValueError"
                                     ELSE "FileNotFoundError"

\* Both analysis functions have raised FileNotFoundError on the missing file,
\* each after constructing its client.
C2_Witness ==
    /\ ~CredentialsMissing
    /\ \E i, j \in DOMAIN invs :
          /\ invs[i].fn = "get_ocr_results" /\ invs[j].fn = "parse_pdf_to_markdown"
          /\ ~fs[invs[i].path].exists /\ ~fs[invs[j].path].exists
          /\ invs[i].error = "FileNotFoundError" /\ invs[i].client # 0
          /\ invs[j].error = "FileNotFoundError" /\ invs[j].client # 0

\* C3: every call of begin_analyze_document made by parse_pdf_to_markdown asks
\* for Markdown output, none made by get_ocr_results does, and all of them
\* name the model "prebuilt-layout".
C3_MarkdownFlag ==
    \A k \in DOMAIN ops :
        /\ ops[k].model_id = "prebuilt-layout"
        /\ invs[ops[k].inv].fn \in AnalysisFunctions
        /\ invs[ops[k].inv].fn = "parse_pdf_to_markdown" =>
              ops[k].output_content_format = "markdown"
        /\ invs[ops[k].inv].fn = "get_ocr_results" =>
              ops[k].output_content_format = None

\* Each of the two functions has submitted a document.
C3_Witness ==
    \E k, l \in DOMAIN ops :
        /\ invs[ops[k].inv].fn = "parse_pdf_to_markdown"
        /\ invs[ops[l].inv].fn = "get_ocr_results"
        /\ ops[k].status # "rejected" /\ ops[l].status # "rejected"

\* C4: an analysis invocation that has returned holds a poller whose
\* operation has succeeded, and the value it returned is the content of that
\* result; while the operation is pending it has not returned.
C4_ReturnsCompletedContent ==
    \A i \in DOMAIN invs :
        (invs[i].fn \in AnalysisFunctions /\ invs[i].outcome = "returned") =>
            /\ invs[i].poller \in DOMAIN ops
            /\ ops[invs[i].poller].status = "succeeded"
            /\ invs[i].value = ops[invs[i].poller].content

\* get_ocr_results has returned "H", the answer of the service, and
\* parse_pdf_to_markdown a text of two characters.
C4_Witness ==
    \E i, j \in DOMAIN invs :
        /\ invs[i].fn = "get_ocr_results" /\ invs[i].outcome = "returned"
        /\ invs[i].value = <<72>>
        /\ invs[j].fn = "parse_pdf_to_markdown" /\ invs[j].outcome = "returned"
        /\ invs[j].value = <<8364, 72>>

\* C6: an analysis invocation submits at most once; when the submission is
\* rejected or the operation fails, the invocation does not go back to
\* submit, and it ends by raising the error of the SDK, the same one.
C6_NoRetryNoTranslation ==
    \A i \in DOMAIN invs :
        invs[i].fn \in AnalysisFunctions =>
            /\ Cardinality(OpsOf(i)) <= 1
            /\ \A k \in OpsOf(i) :
                  /\ ops[k].status = "rejected" =>
                        /\ invs[i].outcome = "raised"
                        /\ invs[i].error = ops[k].error
                  /\ ops[k].status = "failed" =>
                        /\ invs[i].pc \in {"result", "done"}
                        /\ invs[i].pc = "done" =>
                              /\ invs[i].outcome = "raised"
                              /\ invs[i].error = ops[k].error

\* One invocation has raised the error its submission was rejected with,
\* another the error its operation failed with.
C6_Witness ==
    \E i, j \in DOMAIN invs : \E k \in OpsOf(i), l \in OpsOf(j) :
        /\ ops[k].status = "rejected" /\ invs[i].error = "ServiceRequestError"
        /\ ops[l].status = "failed" /\ invs[j].error = "HttpResponseError"
        /\ invs[j].outcome = "raised"

\* C7: no client handle is held or used by two invocations, and an invocation
\* of get_ocr_results that has returned returned the content of an operation
\* it submitted itself, on its own document.
C7_OwnClientOwnResult ==
    /\ \A i, j \in DOMAIN invs :
          (i # j /\ invs[i].client # 0) => invs[i].client # invs[j].client
    /\ \A k, l \in DOMAIN ops :
          ops[k].client = ops[l].client => ops[k].inv = ops[l].inv
    /\ \A k \in DOMAIN ops : ops[k].client = invs[ops[k].inv].client
    /\ \A i \in DOMAIN invs :
          (invs[i].fn = "get_ocr_results" /\ invs[i].outcome = "returned") =>
              /\ invs[i].poller \in OpsOf(i)
              /\ ops[invs[i].poller].body = fs[invs[i].path].data
              /\ invs[i].value = ops[invs[i].poller].content

\* Two threads are inside get_ocr_results at once, on different documents;
\* the one that submitted last has its answer first.
C7_Witness ==
    \E i, j \in DOMAIN invs :
        /\ invs[i].fn = "get_ocr_results" /\ invs[j].fn = "get_ocr_results"
        /\ invs[i].thread # invs[j].thread
        /\ invs[i].path # invs[j].path
        /\ invs[i].pc = "result" /\ ops[invs[i].poller].status = "pending"
        /\ invs[j].outcome = "returned" /\ invs[j].poller > invs[i].poller

\* C5: after a call of save_markdown_output that returned, the file at its
\* path holds the UTF-8 encoding of the text of that call and nothing else,
\* whatever it held before, and reading it back yields that text.
C5_FileHoldsLastSave ==
    \A p \in Paths :
        (saved[p].called /\ saved[p].error = "") =>
            /\ fs[p].exists
            /\ fs[p].data = Encode(saved[p].content)
            /\ Decode(fs[p].data) = saved[p].content

\* One file held another text and now holds the two characters of the last
\* call; the other was written again with the text it held.
C5_Witness ==
    \E p, q \in SavePaths :
        /\ saved[p].called /\ saved[p].error = "" /\ saved[p].found = "other"
        /\ saved[p].content = <<8364, 72>>
        /\ saved[q].called /\ saved[q].error = "" /\ saved[q].found = "same"
        /\ Len(saved[q].content) = 2

RunFrames == {i \in DOMAIN invs : invs[i].fn = "test_ocr_functions"}

\* The run has printed an error of the try block named.
Printed(i, block) ==
    \E n \in 1..Len(invs[i].printed) : invs[i].printed[n][1] = block

\* The write a step has added to the log, as a set.
NewWrites == {writes'[n] : n \in (Len(writes) + 1)..Len(writes')}

\* The function the submissions of a step come from, as a set.
NewSubmitters == {invs'[ops'[k].inv].fn : k \in DOMAIN ops' \ DOMAIN ops}

\* C8 as claimed: once test_ocr_functions has caught and printed an error,
\* the run submits nothing more and writes nothing more.
C8_ErrorEndsRun ==
    [][(\E i \in RunFrames : Printed(i, "get_ocr_results")
                              \/ Printed(i, "parse_pdf_to_markdown"))
         => (submitted' = submitted /\ writes' = writes)]_vars

\* C8, amended: an error of an analysis or of a write reaches
\* test_ocr_functions and is printed by the except clause of the try block it
\* happened in; after an error in the get_ocr_results block nothing more is
\* submitted by get_ocr_results and the OCR file is not written, but the
\* parse_pdf_to_markdown block still runs; after an error in the
\* parse_pdf_to_markdown block nothing more is called, submitted or written.
C8_ErrorEndsBlock ==
    /\ [](\A i \in DOMAIN invs :
            (invs[i].caller # 0 /\ invs[i].outcome = "raised") =>
                \E n \in 1..Len(invs[invs[i].caller].printed) :
                    invs[invs[i].caller].printed[n] = <<invs[i].fn, invs[i].error>>)
    /\ [](\A n \in 1..Len(writes) :
            writes[n].error # "" =>
                \E m \in 1..Len(invs[writes[n].inv].printed) :
                    invs[writes[n].inv].printed[m][2] = writes[n].error)
    /\ [][\A i \in RunFrames :
            /\ Printed(i, "parse_pdf_to_markdown") =>
                  /\ calls' = calls /\ submitted' = submitted
                  /\ writes' = writes /\ fs' = fs
            /\ Printed(i, "get_ocr_results") =>
                  /\ "get_ocr_results" \notin NewSubmitters
                  /\ \A w \in NewWrites : w.path # OcrOutputFile(test_file)
                  /\ fs'[OcrOutputFile(test_file)] = fs[OcrOutputFile(test_file)]]_vars

\* get_ocr_results raised, its error was printed, and the run went on: it
\* submitted the document again and wrote the Markdown file.
C8_Witness ==
    \E i \in RunFrames :
        /\ invs[i].printed = <<<<"get_ocr_results", "HttpResponseError">>>>
        /\ submitted = 2
        /\ Len(writes) = 1
        /\ writes[1].path = MarkdownOutputFile(test_file) /\ writes[1].error = ""
        /\ invs[i].outcome = "returned"

\* The analysis whose text goes to an output path.
AnalysisFor(path) ==
    IF path = OcrOutputFile(test_file) THEN "get_ocr_results"
    ELSE "parse_pdf_to_markdown"

\* C9: in a run of test_ocr_functions every write is on one of the two output
\* files, comes after the analysis of that file returned, carries the text
\* that analysis returned, and is the only write on that file; a write that
\* completed left exactly the encoding of that text; an output file changes
\* only in such a write, so that the file of an analysis that raised is
\* neither created nor modified; and without the test file nothing is
\* submitted and nothing written.
C9_WriteOnlyAfterAnalysis ==
    /\ [](\A n \in 1..Len(writes) :
            /\ writes[n].path \in OutputPaths
            /\ \E a \in DOMAIN invs :
                  /\ invs[a].caller = writes[n].inv
                  /\ invs[a].fn = AnalysisFor(writes[n].path)
                  /\ invs[a].outcome = "returned"
                  /\ invs[a].value = writes[n].content
            /\ \A m \in 1..Len(writes) : m # n => writes[m].path # writes[n].path
            /\ writes[n].error = "" =>
                  fs[writes[n].path] = File(Encode(writes[n].content)))
    /\ [](~fs[test_file].exists => (submitted = 0 /\ ops = <<>> /\ writes = <<>>))
    /\ [][/\ \A p \in OutputPaths :
               fs'[p] # fs[p] => \E w \in NewWrites : w.path = p
          /\ ~fs[test_file].exists => fs' = fs
          /\ \A a \in DOMAIN invs :
               (invs[a].caller # 0 /\ invs[a].outcome = "raised") =>
                   /\ fs'[IF invs[a].fn = "get_ocr_results"
                          THEN OcrOutputFile(test_file)
                          ELSE MarkdownOutputFile(test_file)]
                        = fs[IF invs[a].fn = "get_ocr_results"
                             THEN OcrOutputFile(test_file)
                             ELSE MarkdownOutputFile(test_file)]]_vars

\* get_ocr_results raised and left the old OCR file as it was;
\* parse_pdf_to_markdown returned and its text replaced the old Markdown file.
C9_Witness ==
    \E i \in RunFrames : \E a, b \in DOMAIN invs :
        /\ invs[i].outcome = "returned"
        /\ invs[a].fn = "get_ocr_results" /\ invs[a].outcome = "raised"
        /\ invs[b].fn = "parse_pdf_to_markdown" /\ invs[b].outcome = "returned"
        /\ invs[b].value = <<8364, 72>>
        /\ fs[OcrOutputFile(test_file)] = File(<<72>>)
        /\ fs[MarkdownOutputFile(test_file)] = File(Encode(<<8364, 72>>))
        /\ Len(writes) = 1

\* C10: an invocation that waits for an operation that is still pending stays
\* where it is: no step makes it return or raise; and when the service ends
\* every operation, every invocation that waits ends, by returning or raising.
C10_BlockedUntilOperationEnds ==
    /\ [][\A i \in DOMAIN invs :
            (invs[i].pc = "result" /\ ops[invs[i].poller].status = "pending") =>
                (i \in DOMAIN invs' /\ invs'[i] = invs[i])]_vars
    /\ \A t \in Workers :
          (~Idle(t) /\ invs[Top(t)].pc = "result") ~> Idle(t)

\* One thread waits for a pending operation while another, whose operation
\* failed, has raised that failure.
C10_Witness ==
    \E i, j \in DOMAIN invs :
        /\ invs[i].pc = "result" /\ ops[invs[i].poller].status = "pending"
        /\ invs[j].outcome = "raised" /\ invs[j].poller \in DOMAIN ops
        /\ ops[invs[j].poller].status = "failed"
        /\ invs[j].error = ops[invs[j].poller].error

====
